---- MODULE Spec2Model ----
(***************************************************************************)
(* A model of simple_parser.py: the LL(1) driver evaluate_ll_input and the *)
(* LR(1) driver evaluate_lr_input, one action per iteration of their       *)
(* `while not evaluation_finished` loops.                                  *)
(*                                                                         *)
(* Strings of the program are modelled as sequences of one-character       *)
(* strings, so that iterating a string, reversing it and joining a list    *)
(* are what they are in the code.  A dict is a function whose DOMAIN is    *)
(* the set of keys, so `d.get(k) is None` is `k \notin DOMAIN d`.          *)
(***************************************************************************)
EXTENDS Integers, Sequences, FiniteSets, TLC

VARIABLES
    method,               \* parsing_input.method: which driver is running
    ll,                   \* the LL object handed to evaluate_ll_input
    lr,                   \* the LR object handed to evaluate_lr_input
    input,                \* the input string, as given by the caller
    outputs,              \* the trace built so far
    queue,                \* LL: the input queue
    stack,                \* LL: the symbol stack
    compounds,            \* LR: the compound sequence
    step_counter,
    evaluation_finished,
    pc,                   \* "main", "loop", "returned" or "raised"
    displayed             \* one of the traces main has displayed so far

vars == <<method, ll, lr, input, outputs, queue, stack, compounds,
          step_counter, evaluation_finished, pc, displayed>>

\* ---------------------------------------------------------------- bounds

\* Longest input string given to a driver.
MaxInputLen == 3

\* Most loop iterations followed in one run.
MaxSteps == 7

\* ------------------------------------------------------------- constants

ID_SYMBOL == "#"

\* The one character "ϵ" that marks the empty production.
EPSILON == "eps"

\* -------------------------------------------------------- string helpers

RECURSIVE Reversed(_)
Reversed(s) == IF s = <<>> THEN <<>> ELSE Append(Reversed(Tail(s)), Head(s))

\* input.replace("id", ID_SYMBOL): leftmost, non-overlapping occurrences.
RECURSIVE ReplaceId(_)
ReplaceId(s) ==
    IF s = <<>> THEN <<>>
    ELSE IF Len(s) >= 2 /\ s[1] = "i" /\ s[2] = "d"
         THEN <<ID_SYMBOL>> \o ReplaceId(SubSeq(s, 3, Len(s)))
         ELSE <<Head(s)>> \o ReplaceId(Tail(s))

\* list.pop(): the list without its last element.
Popped(s) == SubSeq(s, 1, Len(s) - 1)

\* list.remove(x): the list without the first occurrence of x.
RECURSIVE Removed(_, _)
Removed(s, x) ==
    IF s = <<>> THEN <<>>
    ELSE IF Head(s) = x THEN Tail(s)
    ELSE <<Head(s)>> \o Removed(Tail(s), x)

\* "".join(list) of strings of at most one character, as a character sequence.
Join(s) == SelectSeq(s, LAMBDA c : c # "")

\* All sequences over S of length at most n.
SeqsUpTo(S, n) == UNION {[1..k -> S] : k \in 0..n}

\* All dicts with keys among K and values in V.
Dicts(K, V) == UNION {[D -> V] : D \in SUBSET K}

\* ------------------------------------------------------ LL(1): the inputs

\* Characters of the LL input strings: "i" and "d" spell the identifier.
LLChars == {"i", "d", "$"}

\* Right-hand sides appearing in the tables.
LLProductions ==
    {<<"d">>, <<EPSILON>>, <<"S">>, <<"d", "S">>, <<"S", "d">>, <<"A">>}

LLStartRules == {<<"S">>, <<ID_SYMBOL>>, <<EPSILON>>, <<"d", "S">>, <<>>}

\* Rows of the non-terminal S: any production under "d", a short one under "$".
LLRowsS ==
    {rd @@ re : rd \in Dicts({"d"}, LLProductions),
                re \in Dicts({"$"}, {<<EPSILON>>, <<"A">>})}

\* The non-terminal A has no row, an empty row, or one production.
LLTablesA == {<<>>, [A |-> <<>>], [A |-> [d |-> <<"d">>]]}

LLTables == {[S |-> rs] @@ ta : rs \in LLRowsS, ta \in LLTablesA}

LLObjects ==
    {[start_symbol |-> "S", start_rule |-> r, table |-> t] :
        r \in LLStartRules, t \in LLTables}

\* The LR object of a run of the LL driver (not read by it).
NoLR == [start_state |-> "", table |-> <<>>]

\* No trace has been displayed.
NoDisplay ==
    [method |-> "", table |-> <<>>, string |-> <<>>, outputs |-> <<>>,
     between |-> FALSE]

\* The LL object of a run of the LR driver (not read by it).
NoLL == [start_symbol |-> "", start_rule |-> <<>>, table |-> <<>>]

\* ------------------------------------------------- LL(1): one iteration

LLAction(text, sym, arg) == [text |-> text, sym |-> sym, arg |-> arg]

LLResult(action, temp_stack, temp_queue, finished) ==
    [action |-> action, temp_stack |-> temp_stack, temp_queue |-> temp_queue,
     finished |-> finished]

\* Step 1: the start rule is recorded and pushed in reverse.
LLStartStep(l, temp_stack, temp_queue) ==
    LLResult(LLAction("lhs->rhs", l.start_symbol, l.start_rule),
             temp_stack \o Reversed(l.start_rule), temp_queue, FALSE)

LLAcceptStep(temp_stack, temp_queue) ==
    LLResult(LLAction("ACCEPTED", "", <<>>), temp_stack, temp_queue, TRUE)

\* LLMatchStep removing the symbol from the end of the queue.
LLMatchStepFromEnd(queue_item, temp_stack, temp_queue) ==
    LLResult(LLAction("Match and remove", queue_item, <<>>),
             temp_stack, Reversed(Removed(Reversed(temp_queue), queue_item)),
             FALSE)

LLMatchStep(queue_item, temp_stack, temp_queue) ==
    LLResult(LLAction("Match and remove", queue_item, <<>>),
             temp_stack, Removed(temp_queue, queue_item), FALSE)

\* LLProductionStep without reversed(): the symbols are pushed left to right.
LLProductionStepInOrder(stack_item, production, temp_stack, temp_queue) ==
    LLResult(LLAction("\"lhs->rhs\"", stack_item, production),
             IF production # <<EPSILON>>
             THEN temp_stack \o production
             ELSE temp_stack,
             temp_queue, FALSE)

LLProductionStep(stack_item, production, temp_stack, temp_queue) ==
    LLResult(LLAction("\"lhs->rhs\"", stack_item, production),
             IF production # <<EPSILON>>
             THEN temp_stack \o Reversed(production)
             ELSE temp_stack,
             temp_queue, FALSE)

\* LLNoActionStep without `evaluation_finished = True`: the loop goes on.
LLNoActionStepGoesOn(stack_item, queue_item, temp_stack, temp_queue) ==
    LLResult(LLAction("REJECTED (doesn't have an action/step for)",
                      stack_item, <<queue_item>>),
             temp_stack, temp_queue, FALSE)

LLNoActionStep(stack_item, queue_item, temp_stack, temp_queue) ==
    LLResult(LLAction("REJECTED (doesn't have an action/step for)",
                      stack_item, <<queue_item>>),
             temp_stack, temp_queue, TRUE)

LLNotFoundStep(stack_item, temp_stack, temp_queue) ==
    LLResult(LLAction("REJECTED (not found in LL(1) parsing table)",
                      stack_item, <<>>),
             temp_stack, temp_queue, TRUE)

\* Steps >= 2, for a non-empty stack and queue.
LLLaterStep(l, stk, que) ==
    LET stack_item == stk[Len(stk)]
        temp_stack == Popped(stk)
        queue_item == que[1]
    IN  IF stack_item = "$" /\ queue_item = "$"
        THEN LLAcceptStep(temp_stack, que)
        ELSE IF stack_item = queue_item
        THEN LLMatchStep(queue_item, temp_stack, que)
        ELSE IF stack_item \in DOMAIN l.table
        THEN LET productions == l.table[stack_item]
             IN  IF queue_item \in DOMAIN productions
                 THEN LLProductionStep(stack_item, productions[queue_item],
                                       temp_stack, que)
                 ELSE LLNoActionStep(stack_item, queue_item, temp_stack, que)
        ELSE LLNotFoundStep(stack_item, temp_stack, que)

\* temp_stack.pop() or temp_queue[0] raises IndexError.
LLRaises(stk, que, step) == step # 1 /\ (stk = <<>> \/ que = <<>>)

LLStep(l, stk, que, step) ==
    IF step = 1 THEN LLStartStep(l, stk, que) ELSE LLLaterStep(l, stk, que)

LLRecord(step, stk, que, action) ==
    [NO |-> step, STACK |-> Join(stk), INPUT |-> Join(que)]
        @@ ("ACTION" :> action)

\* ------------------------------------------------------- LL(1): the run

InitLL ==
    /\ method = "LL"
    /\ ll \in LLObjects
    /\ lr = NoLR
    /\ input \in SeqsUpTo(LLChars, MaxInputLen)
    /\ outputs = <<>>
    /\ queue = ReplaceId(input)
    /\ stack = <<"$">>
    /\ compounds = <<>>
    /\ step_counter = 1
    /\ evaluation_finished = FALSE
    /\ pc = "loop"
    /\ displayed = NoDisplay

\* One iteration of the loop that runs to its end.
LLIteration ==
    /\ method = "LL" /\ pc = "loop" /\ ~evaluation_finished
    /\ step_counter <= MaxSteps
    /\ ~LLRaises(stack, queue, step_counter)
    /\ LET r == LLStep(ll, stack, queue, step_counter)
       IN  /\ outputs' = Append(outputs,
                                LLRecord(step_counter, stack, queue, r.action))
           /\ stack' = r.temp_stack
           /\ queue' = r.temp_queue
           /\ evaluation_finished' = r.finished
    /\ step_counter' = step_counter + 1
    /\ UNCHANGED <<method, ll, lr, input, compounds, pc, displayed>>

\* One iteration that ends in an IndexError: the call returns no trace.
LLRaise ==
    /\ method = "LL" /\ pc = "loop" /\ ~evaluation_finished
    /\ step_counter <= MaxSteps
    /\ LLRaises(stack, queue, step_counter)
    /\ pc' = "raised"
    /\ UNCHANGED <<method, ll, lr, input, outputs, queue, stack, compounds,
                   step_counter, evaluation_finished, displayed>>

\* The loop condition fails and the trace is returned.
LLReturn ==
    /\ method = "LL" /\ pc = "loop" /\ evaluation_finished
    /\ pc' = "returned"
    /\ UNCHANGED <<method, ll, lr, input, outputs, queue, stack, compounds,
                   step_counter, evaluation_finished, displayed>>

NextLL == LLIteration \/ LLRaise \/ LLReturn

SpecLL == InitLL /\ [][NextLL]_vars

\* ------------------------------------------------------ LR(1): the inputs

\* Characters of the LR input strings; "X" is the grammar's non-terminal.
LRChars == {"a", "b"}

LRSymbols == {"a", "b", "X"}

\* The strings that occur as states and as table entries, each with its
\* characters.
CharsOf ==
    [s \in {"", "a", "b", "X"} |-> IF s = "" THEN <<>> ELSE <<s>>]
    @@ [accept  |-> <<"a", "c", "c", "e", "p", "t">>,
        Accept  |-> <<"A", "c", "c", "e", "p", "t">>,
        State_0 |-> <<"S", "t", "a", "t", "e", "_", "0">>,
        State_1 |-> <<"S", "t", "a", "t", "e", "_", "1">>,
        State_2 |-> <<"S", "t", "a", "t", "e", "_", "2">>,
        State_3 |-> <<"S", "t", "a", "t", "e", "_", "3">>,
        error   |-> <<"e", "r", "r", "o", "r">>]
    @@ ("X->"   :> <<"X", "-", ">">>)
    @@ ("X->a"  :> <<"X", "-", ">", "a">>)
    @@ ("X->b"  :> <<"X", "-", ">", "b">>)
    @@ ("X->ab" :> <<"X", "-", ">", "a", "b">>)
    @@ ("X->bb" :> <<"X", "-", ">", "b", "b">>)

\* str.lower(), character by character.
Lower(cs) ==
    [n \in 1..Len(cs) |->
        IF cs[n] = "A" THEN "a" ELSE IF cs[n] = "S" THEN "s"
        ELSE IF cs[n] = "X" THEN "x" ELSE cs[n]]

\* str.startswith(prefix)
StartsWith(cs, prefix) ==
    Len(cs) >= Len(prefix) /\ SubSeq(cs, 1, Len(prefix)) = prefix

\* sub in str
Contains(cs, sub) ==
    \E n \in 1..(Len(cs) - Len(sub) + 1) : SubSeq(cs, n, n + Len(sub) - 1) = sub

\* str.replace(old, "") for a non-empty old.
RECURSIVE Without(_, _)
Without(cs, old) ==
    IF cs = <<>> THEN <<>>
    ELSE IF StartsWith(cs, old)
         THEN Without(SubSeq(cs, Len(old) + 1, Len(cs)), old)
         ELSE <<Head(cs)>> \o Without(Tail(cs), old)

\* " ".join(list of character sequences)
RECURSIVE JoinSpaced(_)
JoinSpaced(l) ==
    IF l = <<>> THEN <<>>
    ELSE IF Len(l) = 1 THEN l[1]
    ELSE l[1] \o <<" ">> \o JoinSpaced(Tail(l))

IsAccept(action) == Lower(CharsOf[action]) = CharsOf["accept"]

IsShift(action) == StartsWith(CharsOf[action], <<"S", "t", "a", "t", "e", "_">>)

IsReduce(action) == Contains(CharsOf[action], <<"-", ">">>)

\* list(prev_state_action[3:])
SymbolsToDelete(action) == SubSeq(CharsOf[action], 4, Len(CharsOf[action]))

\* prev_state_action[0]
ReducedSymbol(action) == CharsOf[action][1]

\* The entries a table may hold in each of its cells (a cell may be empty).
LRCellChoices ==
    [State_0 |-> [a |-> {"State_1"},
                  b |-> {"X->", "Accept", "X->bb"},
                  X |-> {"State_2", "State_3"}],
     State_1 |-> [a |-> {"State_1", "X->a"},
                  b |-> {"X->a", "X->b", "State_2", "error"},
                  X |-> {}],
     State_2 |-> [a |-> {"X->ab"},
                  b |-> {"accept", "X->ab"},
                  X |-> {}]]

LRRows(state) ==
    {ra @@ rb @@ rx : ra \in Dicts({"a"}, LRCellChoices[state]["a"]),
                      rb \in Dicts({"b"}, LRCellChoices[state]["b"]),
                      rx \in Dicts({"X"}, LRCellChoices[state]["X"])}

LRTables ==
    {[State_0 |-> r0, State_1 |-> r1, State_2 |-> r2] :
        r0 \in LRRows("State_0"), r1 \in LRRows("State_1"),
        r2 \in LRRows("State_2")}

LRObjects == {[start_state |-> "State_0", table |-> t] : t \in LRTables}

\* ------------------------------------------------- LR(1): one iteration

\* list[k] for a Python index k: a negative k counts from the end.
PyInRange(l, k) == -Len(l) <= k /\ k < Len(l)

PyAt(l, k) == l[(IF k < 0 THEN k + Len(l) ELSE k) + 1]

\* list.insert(k, x)
PyInsert(l, k, x) ==
    LET at == IF k < 0 THEN (IF k + Len(l) < 0 THEN 0 ELSE k + Len(l))
              ELSE IF k > Len(l) THEN Len(l) ELSE k
    IN  SubSeq(l, 1, at) \o <<x>> \o SubSeq(l, at + 1, Len(l))

IsPending(compound) == "state" \notin DOMAIN compound

\* The index of the first compound without a state, or -1.
FirstPending(cs) ==
    IF \E n \in 1..Len(cs) : IsPending(cs[n])
    THEN (CHOOSE n \in 1..Len(cs) :
            IsPending(cs[n]) /\ \A m \in 1..(n - 1) : ~IsPending(cs[m])) - 1
    ELSE -1

Settle(compound, state) == compound @@ [state |-> state]

PendingCompound(symbol) == [symbol |-> symbol]

LRAction(text, arg) == [text |-> text, arg |-> arg]

LRResult(fields, temp_compounds, finished, raised) ==
    [fields |-> fields, temp_compounds |-> temp_compounds,
     finished |-> finished, raised |-> raised]

\* The scan of the compounds before position i against the right-hand side:
\* j runs from 1 to len(symbols_to_delete).
RECURSIVE ReduceScan(_, _, _, _, _)
ReduceScan(cs, i, symbols_to_delete, j, compounds_to_delete) ==
    LET k == Len(symbols_to_delete)
        done(valid, rejected, raised) ==
            [action_is_valid |-> valid, rejected |-> rejected,
             raised |-> raised, compounds_to_delete |-> compounds_to_delete]
    IN  IF j > k THEN done(TRUE, FALSE, FALSE)
        ELSE IF ~PyInRange(cs, i - j) THEN done(TRUE, FALSE, TRUE)
        ELSE IF "symbol" \notin DOMAIN PyAt(cs, i - j)
             THEN done(TRUE, TRUE, FALSE)
        ELSE IF PyAt(cs, i - j).symbol # symbols_to_delete[(k - j) + 1]
             THEN done(FALSE, FALSE, FALSE)
        ELSE ReduceScan(cs, i, symbols_to_delete, j + 1,
                        Append(compounds_to_delete, PyAt(cs, i - j)))

\* [compound for compound in temp_compounds if compound not in compounds_to_delete]
DeleteCompounds(cs, compounds_to_delete) ==
    SelectSeq(cs, LAMBDA c :
        \A n \in 1..Len(compounds_to_delete) : c # compounds_to_delete[n])

\* InsertReduced with the new compound put at the front of the list.
InsertReducedFirst(cs, symbol) ==
    PyInsert(cs, 0, PendingCompound(symbol))

\* InsertReduced with the new compound appended at the end of the list.
InsertReducedAtEnd(cs, symbol) ==
    PyInsert(cs, Len(cs), PendingCompound(symbol))

\* temp_compounds.insert(len(temp_compounds) - 1, {"symbol": lhs})
InsertReduced(cs, symbol) ==
    PyInsert(cs, Len(cs) - 1, PendingCompound(symbol))

LRReduceStep(cs, i, symbol, prev_state_action) ==
    LET scan == ReduceScan(cs, i, SymbolsToDelete(prev_state_action), 1, <<>>)
        action == IF scan.rejected
                  THEN LRAction("REJECTED (Previous symbol not found in compounds)", "")
                  ELSE LRAction("Reverse", prev_state_action)
        after == IF scan.action_is_valid
                 THEN InsertReduced(
                          DeleteCompounds(cs, scan.compounds_to_delete),
                          ReducedSymbol(prev_state_action))
                 ELSE cs
    IN  LRResult(("READ" :> symbol) @@ ("ACTION" :> action),
                 after, scan.rejected, scan.raised)

\* LRShiftStep giving the state to every pending compound.
LRShiftStepAll(cs, i, symbol, prev_state_action) ==
    LRResult(("READ" :> symbol)
                 @@ ("ACTION" :> LRAction("Shift to", prev_state_action)),
             [n \in 1..Len(cs) |->
                 IF IsPending(cs[n]) THEN Settle(cs[n], prev_state_action)
                 ELSE cs[n]],
             FALSE, FALSE)

LRShiftStep(cs, i, symbol, prev_state_action) ==
    LRResult(("READ" :> symbol)
                 @@ ("ACTION" :> LRAction("Shift to", prev_state_action)),
             [cs EXCEPT ![i + 1] = Settle(cs[i + 1], prev_state_action)],
             FALSE, FALSE)

LRAcceptStep(cs, symbol) ==
    LRResult(("READ" :> symbol) @@ ("ACTION" :> LRAction("ACCEPTED", "")),
             cs, TRUE, FALSE)

\* LRRejectStep without `evaluation_finished = True`: the loop goes on.
LRRejectStepGoesOn(cs, symbol, text, arg) ==
    LRResult(("READ" :> symbol) @@ ("ACTION" :> LRAction(text, arg)),
             cs, FALSE, FALSE)

LRRejectStep(cs, symbol, text, arg) ==
    LRResult(("READ" :> symbol) @@ ("ACTION" :> LRAction(text, arg)),
             cs, TRUE, FALSE)

\* The for loop found no compound without a state: nothing is set.
LRNoPendingStep(cs) == LRResult(<<>>, cs, FALSE, FALSE)

\* The body of the for loop at the first pending compound, at index i.
LRClassify(l, cs, i) ==
    LET symbol == cs[i + 1].symbol
        prev   == PyAt(cs, i - 1)
    IN  IF IsPending(prev)
        THEN LRRejectStep(cs, symbol,
                 "REJECTED (Previous state not found in compounds)", "")
        ELSE IF prev.state \notin DOMAIN l.table
        THEN LRRejectStep(cs, symbol,
                 "REJECTED (Previous state actions/steps not found in LR(1) table)", "")
        ELSE IF symbol \notin DOMAIN l.table[prev.state]
        THEN LRRejectStep(cs, symbol,
                 "REJECTED (state does not have an action/step for)", prev.state)
        ELSE LET prev_state_action == l.table[prev.state][symbol]
             IN  IF IsAccept(prev_state_action) THEN LRAcceptStep(cs, symbol)
                 ELSE IF IsShift(prev_state_action)
                 THEN LRShiftStep(cs, i, symbol, prev_state_action)
                 ELSE IF IsReduce(prev_state_action)
                 THEN LRReduceStep(cs, i, symbol, prev_state_action)
                 ELSE LRRejectStep(cs, symbol,
                          "REJECTED (Incorrect action/step for)", prev.state)

LRStep(l, cs) ==
    IF FirstPending(cs) = -1 THEN LRNoPendingStep(cs)
    ELSE LRClassify(l, cs, FirstPending(cs))

\* The states of the compounds, each without its "State_" prefix.
StateStackList(cs) ==
    LET settled == SelectSeq(cs, LAMBDA c : ~IsPending(c))
    IN  [n \in 1..Len(settled) |->
            Without(CharsOf[settled[n].state], <<"S", "t", "a", "t", "e", "_">>)]

InputStackList(cs) == [n \in 1..Len(cs) |-> cs[n].symbol]

\* The record appended for a step: the columns show the compounds as they
\* were before the step.  Every compound the code builds has a "symbol" key
\* (InitialCompounds, PendingCompound), so the branch for a compound without
\* one is never taken.
LRRecord(step, cs, fields) ==
    fields @@ ("NO" :> step)
           @@ ("STATE STACK" :> JoinSpaced(StateStackList(cs)))
           @@ ("INPUT" :> Join(InputStackList(cs)))

\* ------------------------------------------------------- LR(1): the run

\* InitialCompounds with a start compound that carries the symbol "b".
InitialCompoundsStartB(l, inp) ==
    <<[state |-> l.start_state, symbol |-> "b"]>>
        \o [n \in 1..Len(inp) |-> PendingCompound(inp[n])]

InitialCompounds(l, inp) ==
    <<[state |-> l.start_state, symbol |-> ""]>>
        \o [n \in 1..Len(inp) |-> PendingCompound(inp[n])]

InitLR ==
    /\ method = "LR"
    /\ ll = NoLL
    /\ lr \in LRObjects
    /\ input \in SeqsUpTo(LRChars, MaxInputLen)
    /\ outputs = <<>>
    /\ queue = <<>>
    /\ stack = <<>>
    /\ compounds = InitialCompounds(lr, input)
    /\ step_counter = 1
    /\ evaluation_finished = FALSE
    /\ pc = "loop"
    /\ displayed = NoDisplay

\* One iteration of the while loop.
LRIteration ==
    /\ method = "LR" /\ pc = "loop" /\ ~evaluation_finished
    /\ step_counter <= MaxSteps
    /\ LET r == LRStep(lr, compounds)
       IN  IF r.raised
           THEN /\ pc' = "raised"
                /\ UNCHANGED <<outputs, compounds, step_counter,
                               evaluation_finished>>
           ELSE /\ outputs' = Append(outputs,
                                     LRRecord(step_counter, compounds, r.fields))
                /\ compounds' = r.temp_compounds
                /\ evaluation_finished' = r.finished
                /\ step_counter' = step_counter + 1
                /\ pc' = pc
    /\ UNCHANGED <<method, ll, lr, input, queue, stack, displayed>>

\* The loop condition fails and the trace is returned.
LRReturn ==
    /\ method = "LR" /\ pc = "loop" /\ evaluation_finished
    /\ pc' = "returned"
    /\ UNCHANGED <<method, ll, lr, input, outputs, queue, stack, compounds,
                   step_counter, evaluation_finished, displayed>>

NextLR == LRIteration \/ LRReturn

SpecLR == InitLR /\ [][NextLR]_vars

\* ============================================ main: one run after another

\* The longest string of a parsing input of main.
MaxParsingInputLen == 2

\* The tables main loads before its loop: an LL table with the productions
\* S->dS under "d" and S->eps under "$", started by the rule dS or by the
\* identifier, and LR tables that shift "a", reduce it to X under "b" and
\* accept X under "b", with or without a shift of a second "a".
MainLLObjects ==
    {l \in LLObjects :
        /\ l.start_rule \in {<<"d", "S">>, <<ID_SYMBOL>>}
        /\ l.table = [S |-> ("d" :> <<"d", "S">>) @@ ("$" :> <<EPSILON>>)]}

MainLRObjects ==
    {l \in LRObjects :
        /\ l.table["State_0"] = [a |-> "State_1", X |-> "State_2"]
        /\ DOMAIN l.table["State_1"] \subseteq {"a", "b"}
        /\ "b" \in DOMAIN l.table["State_1"]
        /\ l.table["State_1"]["b"] = "X->a"
        /\ "a" \in DOMAIN l.table["State_1"]
              => l.table["State_1"]["a"] = "State_1"
        /\ l.table["State_2"] = [b |-> "accept"]}

\* The locals of evaluate_ll_input before its loop.
LLLocalsKeepOutputs(inp) ==
    [outputs |-> outputs, queue |-> ReplaceId(inp), stack |-> <<"$">>,
     step_counter |-> 1, evaluation_finished |-> FALSE]

LLLocals(inp) ==
    [outputs |-> <<>>, queue |-> ReplaceId(inp), stack |-> <<"$">>,
     step_counter |-> 1, evaluation_finished |-> FALSE]

\* The locals of evaluate_lr_input before its loop.
LRLocals(l, inp) ==
    [outputs |-> <<>>, compounds |-> InitialCompounds(l, inp),
     step_counter |-> 1, evaluation_finished |-> FALSE]

\* The trace of the finished call, with the method, the table and the
\* string it was made from; no call has returned since.
Displayed ==
    [method |-> method, table |-> IF method = "LL" THEN ll.table ELSE lr.table,
     string |-> input, outputs |-> outputs, between |-> FALSE]

\* The remembered trace after the finished call: a call for another method
\* or string has returned since.
DisplayedEarlier ==
    IF displayed = NoDisplay
    THEN displayed
    ELSE [displayed EXCEPT
             !.between = @ \/ displayed.method # method
                           \/ displayed.string # input]

\* main has loaded both tables and is about to enter its loop.
InitMain ==
    /\ method = ""
    /\ ll \in MainLLObjects
    /\ lr \in MainLRObjects
    /\ input = <<>>
    /\ outputs = <<>>
    /\ queue = <<>>
    /\ stack = <<>>
    /\ compounds = <<>>
    /\ step_counter = 1
    /\ evaluation_finished = FALSE
    /\ pc = "main"
    /\ displayed = NoDisplay

\* main pops a parsing input of method LL and calls evaluate_ll_input.  The
\* list of parsing inputs is any list, so the popped string is any string.
MainCallLL ==
    /\ pc = "main"
    /\ \E string \in SeqsUpTo(LLChars, MaxParsingInputLen) :
          LET locals == LLLocals(string)
          IN  /\ method' = "LL"
              /\ input' = string
              /\ outputs' = locals.outputs
              /\ queue' = locals.queue
              /\ stack' = locals.stack
              /\ compounds' = <<>>
              /\ step_counter' = locals.step_counter
              /\ evaluation_finished' = locals.evaluation_finished
    /\ pc' = "loop"
    /\ UNCHANGED <<ll, lr, displayed>>

\* main pops a parsing input of method LR and calls evaluate_lr_input.
MainCallLR ==
    /\ pc = "main"
    /\ \E string \in SeqsUpTo(LRChars, MaxParsingInputLen) :
          LET locals == LRLocals(lr, string)
          IN  /\ method' = "LR"
              /\ input' = string
              /\ outputs' = locals.outputs
              /\ queue' = <<>>
              /\ stack' = <<>>
              /\ compounds' = locals.compounds
              /\ step_counter' = locals.step_counter
              /\ evaluation_finished' = locals.evaluation_finished
    /\ pc' = "loop"
    /\ UNCHANGED <<ll, lr, displayed>>

\* main displays the returned trace and goes back to its loop condition.
\* The displayed trace is remembered or not: displayed is any one of the
\* traces shown so far, with whether a different call has returned since.
MainDisplay ==
    /\ pc = "returned"
    /\ pc' = "main"
    /\ displayed' \in {DisplayedEarlier, Displayed}
    /\ UNCHANGED <<method, ll, lr, input, outputs, queue, stack, compounds,
                   step_counter, evaluation_finished>>

\* An IndexError of a call leaves main: pc = "raised" is final.
NextMain ==
    \/ MainCallLL \/ MainCallLR \/ MainDisplay
    \/ LLIteration \/ LLRaise \/ LLReturn
    \/ LRIteration \/ LRReturn

SpecMain == InitMain /\ [][NextMain]_vars

\* ===================================================== LL(1): the claims

\* Record n of the trace, and what it shows on top of the stack and at the
\* head of the input.
LLShownTop(rec) == rec["STACK"][Len(rec["STACK"])]

LLShownHead(rec) == rec["INPUT"][1]

\* C1: evaluate_ll_input is total: for every table (productions that begin
\* with their own non-terminal included) and every input the loop finishes
\* and a trace is returned.  An iteration is a function of the table, the
\* stack and the queue alone, so a run that finishes never takes a step
\* >= 2 that leaves stack and queue as they were with the loop going on:
\* that step would repeat for ever.
C1_LLNoStepRepeatsForever ==
    [][(method = "LL" /\ pc = "loop" /\ step_counter >= 2
            /\ step_counter' = step_counter + 1)
        => (evaluation_finished' \/ <<stack', queue'>> # <<stack, queue>>)]_vars

\* C6: every failure of an LL run is a final REJECT record and never an
\* abort: at every step >= 2 the stack is non-empty when its top is popped
\* and the queue is non-empty when its head is read.
C6_LLNeverPopsOrPeeksEmpty ==
    /\ pc # "raised"
    /\ (method = "LL" /\ pc = "loop" /\ ~evaluation_finished
            /\ step_counter >= 2)
        => (stack # <<>> /\ queue # <<>>)

\* C7: with the start rule S -> # and the input "id", given without an end
\* marker, the run returns exactly three records: the start expansion, the
\* match of # against #, and ACCEPT with stack $ and input $.
C7_LLScenarioId ==
    (method = "LL" /\ ll.start_symbol = "S" /\ ll.start_rule = <<ID_SYMBOL>>
        /\ input = <<"i", "d">> /\ pc # "loop")
    => /\ pc # "raised"
       /\ Len(outputs) = 3
       /\ outputs[1]["ACTION"] = LLAction("lhs->rhs", "S", <<ID_SYMBOL>>)
       /\ outputs[2]["ACTION"] = LLAction("Match and remove", ID_SYMBOL, <<>>)
       /\ outputs[3]["ACTION"] = LLAction("ACCEPTED", "", <<>>)
       /\ outputs[3]["STACK"] = <<"$">>
       /\ outputs[3]["INPUT"] = <<"$">>

\* C10: at a step >= 2 whose popped symbol s differs from the head input
\* symbol t, a row for s without an entry for t gives the REJECT "doesn't
\* have an action/step", no row for s gives the REJECT "not found in LL(1)
\* parsing table", and either record is the last of the trace: the loop
\* has stopped.
C10_LLRejectsStopTheRun ==
    method = "LL" =>
    \A n \in 2..Len(outputs) :
        LET s == LLShownTop(outputs[n])
            t == LLShownHead(outputs[n])
        IN  (s # t /\ (s \notin DOMAIN ll.table \/ t \notin DOMAIN ll.table[s]))
            => /\ outputs[n]["ACTION"] =
                    IF s \in DOMAIN ll.table
                    THEN LLAction("REJECTED (doesn't have an action/step for)",
                                  s, <<t>>)
                    ELSE LLAction("REJECTED (not found in LL(1) parsing table)",
                                  s, <<>>)
               /\ n = Len(outputs)
               /\ evaluation_finished
               /\ step_counter = n + 1

\* A run that ended on "doesn't have an action/step" at a step >= 2.
C10_Witness ==
    /\ method = "LL" /\ pc = "returned" /\ Len(outputs) >= 3
    /\ outputs[Len(outputs)]["ACTION"].text =
            "REJECTED (doesn't have an action/step for)"

\* ===================================================== LR(1): the claims

\* What the table holds for the first pending compound of cs: the state
\* before it, its symbol, and whether the table has an entry for them.
LRPendingIndex == FirstPending(compounds)

LRHasEntry ==
    /\ LRPendingIndex >= 1
    /\ ~IsPending(compounds[LRPendingIndex])
    /\ compounds[LRPendingIndex].state \in DOMAIN lr.table
    /\ compounds[LRPendingIndex + 1].symbol
            \in DOMAIN lr.table[compounds[LRPendingIndex].state]

LREntry ==
    lr.table[compounds[LRPendingIndex].state][compounds[LRPendingIndex + 1].symbol]

\* The entry is a reduce (and neither an accept nor a shift).
LRAtReduce ==
    LRHasEntry /\ ~IsAccept(LREntry) /\ ~IsShift(LREntry) /\ IsReduce(LREntry)

\* The k compounds just before the pending one carry the right-hand side.
LRRhsMatches ==
    LET rhs == SymbolsToDelete(LREntry)
        i   == LRPendingIndex
        k   == Len(rhs)
    IN  /\ k <= i
        /\ \A m \in 1..k : compounds[i - k + m].symbol = rhs[m]

\* An iteration of the LR loop is taken in this step.
LRIterates ==
    method = "LR" /\ pc = "loop" /\ step_counter' = step_counter + 1

LRRejectTexts ==
    {"REJECTED (Previous symbol not found in compounds)",
     "REJECTED (Previous state not found in compounds)",
     "REJECTED (Previous state actions/steps not found in LR(1) table)",
     "REJECTED (state does not have an action/step for)",
     "REJECTED (Incorrect action/step for)"}

LRIsReject(rec) ==
    "ACTION" \in DOMAIN rec /\ rec["ACTION"].text \in LRRejectTexts

\* C2: a reduce whose right-hand side does not match the compounds before
\* the pending compound records a REJECT and the run stops at that record;
\* the compounds are never left unchanged with the run going on.
C2_LRMismatchedReduceRejects ==
    [][(LRIterates /\ LRAtReduce /\ ~LRRhsMatches)
        => /\ evaluation_finished'
           /\ LRIsReject(outputs'[Len(outputs')])]_vars

\* C3: an applied reduce with a right-hand side of length k removes exactly
\* the k compounds at positions i-k .. i-1 before the first pending compound
\* at i and no other compound: everything before them stays, and the
\* sequence is k shorter plus the one compound inserted.
C3_LRReduceRemovesExactlyRhs ==
    [][(LRIterates /\ LRAtReduce /\ LRRhsMatches)
        => LET k == Len(SymbolsToDelete(LREntry))
               i == LRPendingIndex
           IN  /\ Len(compounds') = Len(compounds) - k + 1
               /\ \A n \in 1..(i - k) : compounds'[n] = compounds[n]]_vars

\* C4: a step that starts with no pending compound records a REJECT and the
\* run terminates.
C4_LRNoPendingRejects ==
    [][(LRIterates /\ LRPendingIndex = -1)
        => /\ evaluation_finished'
           /\ LRIsReject(outputs'[Len(outputs')])]_vars

\* The table holds shift and accept entries only.
LROnlyShiftAndAccept ==
    \A st \in DOMAIN lr.table : \A sym \in DOMAIN lr.table[st] :
        IsAccept(lr.table[st][sym]) \/ IsShift(lr.table[st][sym])

\* C5: on a table without reduction cycles, and so on every table of shift
\* and accept entries only, the run terminates and its last record is an
\* ACCEPT or a REJECT.  An iteration is a function of the table and the
\* compounds alone, so a terminating run never takes a step that leaves
\* the compounds as they were with the loop going on.
C5_LRShiftAcceptTablesTerminate ==
    [][(LRIterates /\ LROnlyShiftAndAccept)
        => (evaluation_finished' \/ compounds' # compounds)]_vars

\* The scenario of C8: the input is <<x, y>>, the start state shifts x to
\* State_1, State_1 reduces by g -> x on y, the start state shifts g to a
\* state that accepts on y.
C8_Scenario ==
    /\ method = "LR" /\ Len(input) = 2
    /\ LET x  == input[1]
           y  == input[2]
           t  == lr.table
           s0 == lr.start_state
       IN  /\ s0 \in DOMAIN t /\ x \in DOMAIN t[s0] /\ t[s0][x] = "State_1"
           /\ "State_1" \in DOMAIN t /\ y \in DOMAIN t["State_1"]
           /\ LET r == t["State_1"][y]
              IN  /\ ~IsAccept(r) /\ ~IsShift(r) /\ IsReduce(r)
                  /\ SymbolsToDelete(r) = <<x>>
                  /\ ReducedSymbol(r) \in DOMAIN t[s0]
                  /\ LET g == t[s0][ReducedSymbol(r)]
                     IN  /\ ~IsAccept(g) /\ IsShift(g)
                         /\ g \in DOMAIN t /\ y \in DOMAIN t[g]
                         /\ IsAccept(t[g][y])

C8_Expected == <<"Shift to", "Reverse", "Shift to", "ACCEPTED">>

\* C8: in that scenario the trace is exactly 4 records, with the actions
\* shift, reduce, shift, ACCEPT in that order.
C8_LRScenarioFourSteps ==
    C8_Scenario =>
        /\ pc # "raised"
        /\ Len(outputs) <= 4
        /\ \A n \in 1..Len(outputs) :
              /\ "ACTION" \in DOMAIN outputs[n]
              /\ outputs[n]["ACTION"].text = C8_Expected[n]
              /\ outputs[n]["NO"] = n
        /\ evaluation_finished <=> Len(outputs) = 4

\* The scenario's run has returned its trace.
C8_Witness == C8_Scenario /\ pc = "returned" /\ Len(outputs) = 4

\* C9: every record of every LR trace has an ACTION and a READ naming the
\* symbol classified in that step.
C9_LRRecordsHaveActionAndRead ==
    method = "LR" =>
    \A n \in 1..Len(outputs) :
        /\ "ACTION" \in DOMAIN outputs[n]
        /\ "READ" \in DOMAIN outputs[n]
        /\ outputs[n]["READ"] \in LRSymbols

\* The state before the first pending compound has no row in the table.
LRAtMissingRow ==
    /\ LRPendingIndex >= 1
    /\ ~IsPending(compounds[LRPendingIndex])
    /\ compounds[LRPendingIndex].state \notin DOMAIN lr.table

\* That state has a row, and the row has no entry for the pending symbol.
LRAtMissingEntry ==
    /\ LRPendingIndex >= 1
    /\ ~IsPending(compounds[LRPendingIndex])
    /\ compounds[LRPendingIndex].state \in DOMAIN lr.table
    /\ compounds[LRPendingIndex + 1].symbol
            \notin DOMAIN lr.table[compounds[LRPendingIndex].state]

\* C11: with prevState the state before the first pending compound and t
\* its symbol, a table without a row for prevState gives the REJECT for a
\* state absent from the table, a row without an entry for t gives the
\* REJECT for no action under that state; either record ends the trace and
\* the step leaves the compounds as they were.
C11_LRMissingRowOrEntryRejects ==
    [][(LRIterates /\ (LRAtMissingRow \/ LRAtMissingEntry))
        => /\ evaluation_finished'
           /\ Len(outputs') = Len(outputs) + 1
           /\ "ACTION" \in DOMAIN outputs'[Len(outputs')]
           /\ outputs'[Len(outputs')]["ACTION"] =
                IF LRAtMissingRow
                THEN LRAction("REJECTED (Previous state actions/steps not found in LR(1) table)", "")
                ELSE LRAction("REJECTED (state does not have an action/step for)",
                              compounds[LRPendingIndex].state)
           /\ compounds' = compounds]_vars

\* A run that ended on the REJECT for a state absent from the table.
C11_Witness ==
    /\ method = "LR" /\ pc = "returned"
    /\ outputs[Len(outputs)]["ACTION"].text =
            "REJECTED (Previous state actions/steps not found in LR(1) table)"

\* The pending compounds of cs, in order.
LRPendingSuffix(cs) == SelectSeq(cs, IsPending)

\* C13: an applied reduce inserts the new pending compound carrying the
\* left-hand symbol right after the remaining settled compounds and before
\* every remaining pending compound, however many remain: it is the first
\* pending compound of the next step and the old pending compounds follow
\* it in their order.
C13_LRReducedSymbolIsNextPending ==
    [][(LRIterates /\ LRAtReduce /\ LRRhsMatches)
        => LRPendingSuffix(compounds') =
              <<PendingCompound(ReducedSymbol(LREntry))>>
                  \o LRPendingSuffix(compounds)]_vars

\* C14: before step 1 of an LL run the queue is the given symbol sequence
\* followed by one end marker appended by the simulator, and the stack
\* holds the end marker alone.
C14_LLInitialQueueEndsWithMarker ==
    (method = "LL" /\ pc = "loop" /\ step_counter = 1)
    => /\ queue = ReplaceId(input) \o <<"$">>
       /\ stack = <<"$">>

\* C15: in every state of an LR run the compound sequence is non-empty, its
\* first compound is the settled one carrying the start state, and every
\* settled compound precedes every pending one.
C15_LRSettledPrefixPendingSuffix ==
    method = "LR" =>
        /\ Len(compounds) >= 1
        /\ compounds[1] = [state |-> lr.start_state, symbol |-> ""]
        /\ \A m, n \in 1..Len(compounds) :
              (m < n /\ IsPending(compounds[m])) => IsPending(compounds[n])

\* After shifts and an applied reduce: the reduced symbol has been shifted
\* and a pending compound follows.
C15_Witness ==
    /\ method = "LR" /\ Len(compounds) >= 3
    /\ \E n \in 2..Len(compounds) :
          ~IsPending(compounds[n]) /\ compounds[n].symbol = "X"
    /\ IsPending(compounds[Len(compounds)])

\* The symbols a production pushes: none for the empty production.
PushedSymbols(production) ==
    IF production = <<EPSILON>> THEN <<>> ELSE production

\* C16: step 1 applies the start production whatever the input begins
\* with: after it the stack is the end marker followed by the production's
\* right-hand symbols in reverse (leftmost on top), the empty production
\* pushing nothing, and the queue is as it was.
C16_LLStepOnePushesStartRule ==
    (method = "LL" /\ step_counter = 2)
    => /\ Len(stack) = 1 + Len(PushedSymbols(ll.start_rule))
       /\ stack[1] = "$"
       /\ \A m \in 1..Len(PushedSymbols(ll.start_rule)) :
             stack[1 + m] = ll.start_rule[Len(ll.start_rule) + 1 - m]
       /\ queue = ReplaceId(input)

\* An iteration of the LL loop at a step >= 2 is taken in this step.
LLIteratesLater ==
    /\ method = "LL" /\ pc = "loop" /\ step_counter >= 2
    /\ step_counter' = step_counter + 1

\* The symbol popped and the symbol read at a step >= 2.
LLTop == stack[Len(stack)]

LLHead == queue[1]

\* The popped symbol differs from the head symbol and the table has a
\* production for the pair.
LLAtProduction ==
    /\ LLTop # LLHead
    /\ LLTop \in DOMAIN ll.table
    /\ LLHead \in DOMAIN ll.table[LLTop]

\* C17: at a step >= 2 with popped symbol s, head symbol t, s # t, and a
\* production p for (s, t), the new stack is the old one with s removed and
\* p's symbols pushed in reverse, p's leftmost symbol on top, nothing being
\* pushed for the empty production; the record's action names s -> p.
C17_LLProductionPushesReversed ==
    [][(LLIteratesLater /\ LLAtProduction)
        => LET p   == ll.table[LLTop][LLHead]
               rhs == PushedSymbols(p)
               old == Len(stack) - 1
           IN  /\ Len(stack') = old + Len(rhs)
               /\ \A m \in 1..old : stack'[m] = stack[m]
               /\ \A m \in 1..Len(rhs) : stack'[old + m] = rhs[Len(rhs) + 1 - m]
               /\ outputs'[Len(outputs')]["ACTION"] =
                      LLAction("\"lhs->rhs\"", LLTop, p)
               /\ ~evaluation_finished']_vars

\* A production of two symbols has been applied at a step >= 2.
C17_Witness ==
    /\ method = "LL" /\ Len(outputs) >= 2
    /\ outputs[Len(outputs)]["ACTION"].text = "\"lhs->rhs\""
    /\ Len(outputs[Len(outputs)]["ACTION"].arg) = 2

\* The step at hand is a match: a step >= 2 whose popped symbol equals the
\* head symbol, the two not being both the end marker.
LLAtMatch ==
    /\ step_counter >= 2 /\ stack # <<>> /\ queue # <<>>
    /\ LLTop = LLHead /\ LLHead # "$"

\* C18: the queue changes at match steps only, where exactly its head is
\* removed and the rest keeps its order; step 1, expansions, ACCEPT and
\* REJECT steps leave it as it was.
C18_LLQueueChangesOnlyAtMatch ==
    [][method = "LL" =>
        IF pc = "loop" /\ step_counter' = step_counter + 1 /\ LLAtMatch
        THEN /\ queue' = Tail(queue)
             /\ outputs'[Len(outputs')]["ACTION"] =
                    LLAction("Match and remove", LLHead, <<>>)
        ELSE queue' = queue]_vars

\* A match has removed the head of a queue of at least two symbols.
C18_Witness ==
    /\ method = "LL" /\ Len(outputs) >= 2
    /\ outputs[Len(outputs)]["ACTION"].text = "Match and remove"
    /\ Len(outputs[Len(outputs)]["INPUT"]) >= 2
    /\ queue = Tail(outputs[Len(outputs)]["INPUT"])

\* The stack and the input that a record's action makes of the stack and
\* input the record shows: the start expansion pushes the right-hand side,
\* an expansion replaces the top by it, a match removes the top and the head.
LLShownAfter(rec) ==
    LET text == rec["ACTION"].text
        rhs  == Reversed(PushedSymbols(rec["ACTION"].arg))
    IN  IF text = "lhs->rhs"
        THEN <<rec["STACK"] \o rhs, rec["INPUT"]>>
        ELSE IF text = "\"lhs->rhs\""
        THEN <<Popped(rec["STACK"]) \o rhs, rec["INPUT"]>>
        ELSE IF text = "Match and remove"
        THEN <<Popped(rec["STACK"]), Tail(rec["INPUT"])>>
        ELSE <<rec["STACK"], rec["INPUT"]>>

\* C19: record n of an LL trace shows the stack and the remaining input as
\* they are before step n's action (record 1 shows the end marker alone),
\* record n + 1 shows what record n's action makes of what record n shows,
\* and the records are numbered 1, 2, ... in order.
C19_LLTraceIsConsistent ==
    method = "LL" =>
        /\ \A n \in 1..Len(outputs) : outputs[n]["NO"] = n
        /\ Len(outputs) >= 1 =>
              /\ outputs[1]["STACK"] = <<"$">>
              /\ outputs[1]["INPUT"] = ReplaceId(input)
        /\ \A n \in 1..(Len(outputs) - 1) :
              <<outputs[n + 1]["STACK"], outputs[n + 1]["INPUT"]>>
                  = LLShownAfter(outputs[n])

\* The table's entry for the first pending compound is a shift.
LRAtShift == LRHasEntry /\ ~IsAccept(LREntry) /\ IsShift(LREntry)

\* C20: a shift gives the target state to the first pending compound and
\* changes nothing else: the number and order of the compounds, every
\* symbol and every other compound's state stay, so the symbol sequence is
\* the same and the settled/pending boundary moves right by exactly one.
C20_LRShiftSettlesOnlyFirstPending ==
    [][(LRIterates /\ LRAtShift)
        => LET i == LRPendingIndex + 1
           IN  /\ Len(compounds') = Len(compounds)
               /\ \A n \in 1..Len(compounds) :
                     n # i => compounds'[n] = compounds[n]
               /\ compounds'[i] =
                     [state |-> LREntry, symbol |-> compounds[i].symbol]
               /\ InputStackList(compounds') = InputStackList(compounds)
               /\ Len(LRPendingSuffix(compounds')) =
                     Len(LRPendingSuffix(compounds)) - 1
               /\ \A n \in 1..i : ~IsPending(compounds'[n])
               /\ outputs'[Len(outputs')]["ACTION"] =
                     LRAction("Shift to", LREntry)]_vars

\* A shift has been recorded with pending compounds left behind it.
C20_Witness ==
    /\ method = "LR" /\ Len(outputs) >= 1
    /\ "ACTION" \in DOMAIN outputs[Len(outputs)]
    /\ outputs[Len(outputs)]["ACTION"].text = "Shift to"
    /\ Len(LRPendingSuffix(compounds)) >= 2

\* ==================================================== LL(1): acceptance

\* C22: a record's action is ACCEPTED exactly when the top of the stack it
\* shows and the head of the input it shows are both the end marker (and it
\* is not the record of step 1, which pops nothing); and the record of an
\* ACCEPTED shows exactly the end marker as its stack and exactly the end
\* marker as its remaining input.
C22_LLAcceptShowsOnlyEndMarkers ==
    method = "LL" =>
        \A n \in 1..Len(outputs) :
            LET rec == outputs[n]
                accepted == rec["ACTION"].text = "ACCEPTED"
            IN  /\ accepted <=> /\ n > 1
                                /\ LLShownTop(rec) = "$"
                                /\ LLShownHead(rec) = "$"
                /\ accepted => /\ rec["STACK"] = <<"$">>
                               /\ rec["INPUT"] = <<"$">>

\* ================================================= LR(1): the reduce scan

\* The loop is at a step that ends as an iteration or in an IndexError.
LRStepsOn ==
    /\ method = "LR" /\ pc = "loop"
    /\ step_counter' = step_counter + 1 \/ pc' = "raised"

\* The positions i - j the scan of the reduce reads: one for every compound
\* it collected, and the one it stopped at.
LRScanReads ==
    LET i    == LRPendingIndex
        scan == ReduceScan(compounds, i, SymbolsToDelete(LREntry), 1, <<>>)
        n    == Len(scan.compounds_to_delete)
                   + (IF scan.action_is_valid /\ ~scan.rejected /\ ~scan.raised
                      THEN 0 ELSE 1)
    IN  {i - j : j \in 1..n}

\* The right-hand side of the reduce is empty.
LRAtEpsilonReduce == LRAtReduce /\ SymbolsToDelete(LREntry) = <<>>

\* C21: the first pending compound is never at position 0, and the scan of
\* a reduce reads only positions from 0 up to the one before the pending
\* compound, never a negative one; a reduce with an empty right-hand side
\* reads no compound, removes none and inserts exactly one pending compound
\* that carries the left-hand symbol.
C21_LRReduceScanStaysInSequence ==
    [][LRStepsOn
        => /\ LRPendingIndex # 0
           /\ LRAtReduce
                 => \A p \in LRScanReads : 0 <= p /\ p < LRPendingIndex
           /\ LRAtEpsilonReduce
                 => /\ LRScanReads = {}
                    /\ pc' = "loop"
                    /\ Len(compounds') = Len(compounds) + 1
                    /\ \E p \in 1..Len(compounds') :
                          /\ compounds'[p] =
                                PendingCompound(ReducedSymbol(LREntry))
                          /\ SubSeq(compounds', 1, p - 1)
                                \o SubSeq(compounds', p + 1, Len(compounds'))
                                = compounds]_vars

\* An epsilon reduction has been recorded and the compounds are one more
\* than the start compound and the symbols of the input.
C21_Witness ==
    /\ method = "LR" /\ Len(outputs) >= 1
    /\ "ACTION" \in DOMAIN outputs[Len(outputs)]
    /\ outputs[Len(outputs)]["ACTION"] = LRAction("Reverse", "X->")
    /\ Len(compounds) = Len(input) + 2

\* ====================================================== main: the claims

\* C12: a call is idempotent and independent of the calls before it: when
\* a call returns for the method, table and string of a trace displayed
\* earlier, whatever calls were made in between, its trace is the earlier
\* trace; and the tables are the tables main loaded.
C12_SamePairSameTrace ==
    /\ displayed # NoDisplay
          => displayed.table =
                IF displayed.method = "LL" THEN ll.table ELSE lr.table
    /\ (/\ pc = "returned"
        /\ displayed.method = method
        /\ displayed.string = input)
          => displayed.outputs = outputs

\* A call has returned a trace of several steps for the pair of a remembered
\* trace, after a call for a different pair has returned in between.
C12_Witness ==
    /\ pc = "returned"
    /\ displayed.method = method /\ displayed.string = input
    /\ displayed.between
    /\ Len(outputs) >= 3

====
